---- MODULE Spec2Model ----
(***************************************************************************)
(* A model of compatibility_matrices/bump.py: the Bump class, its five     *)
(* steps and the add_lines_above primitive.                                *)
(*                                                                         *)
(* Text is a sequence of tokens.  A token is one character or one literal  *)
(* fragment that the script only ever treats as a unit (a level, an        *)
(* indentation unit of four spaces, a fixed prefix).  "\n" is the line     *)
(* break.  Files live in fs, a function from paths to texts.               *)
(***************************************************************************)
EXTENDS FiniteSets, Integers, Sequences, TLC

VARIABLES
    fs,      \* the file system: path -> text
    args,    \* the inputs of the invocation (cmdline_args, or a call's arguments)
    pc,      \* the step that runs next, or "exit"
    raised,  \* the exception that ended the invocation, if any
    cmds,    \* external commands invoked so far, with their return codes
    writes,  \* paths written so far (each write of a whole file, in order)
    stdout,  \* messages printed by the script itself
    runs,    \* number of invocations started
    pre,     \* fs, cmds, writes and stdout as they were when the last step began
    fs0      \* the file system before the first invocation

vars == <<fs, args, pc, raised, cmds, writes, stdout, runs, pre, fs0>>

NL == "\n"

-----------------------------------------------------------------------------
(* Bounds of the model.                                                    *)

MaxTextLen == 5
MaxXmlLen == 6
MaxBpLines == 2
MaxMkLines == 3
MaxRegLines == 2
MaxRuns == 2

-----------------------------------------------------------------------------
(* Text primitives: Python's str and re operations, as the script uses them *)

\* All sequences over S of length at most n.
SeqsUpTo(S, n) == UNION {[1..k -> S] : k \in 0..n}

\* p occurs in s starting at position i.
IsSubAt(s, p, i) ==
    /\ i >= 1
    /\ i + Len(p) - 1 <= Len(s)
    /\ \A k \in 1..Len(p) : s[i + k - 1] = p[k]

\* Python's `p in s` on strings.
Contains(s, p) == \E i \in 1..(Len(s) + 1) : IsSubAt(s, p, i)

\* One pattern character against one text character: "." is the regular
\* expression wildcard (any character but the line break), all other
\* characters of the script's patterns stand for themselves.
re_char(p, c) == IF p = "." THEN c # NL ELSE p = c

\* The regular expression re matches s at position i.
re_match_at(re, s, i) ==
    /\ i + Len(re) - 1 <= Len(s)
    /\ \A k \in 1..Len(re) : re_char(re[k], s[i + k - 1])

\* re.split(re, s) for a pattern without groups that cannot match the empty
\* string: the pieces between the leftmost non-overlapping matches.
RECURSIVE re_split_from(_, _, _, _)
re_split_from(re, s, i, start) ==
    IF i + Len(re) - 1 > Len(s)
    THEN <<SubSeq(s, start, Len(s))>>
    ELSE IF re_match_at(re, s, i)
         THEN <<SubSeq(s, start, i - 1)>>
              \o re_split_from(re, s, i + Len(re), i + Len(re))
         ELSE re_split_from(re, s, i + 1, start)

re_split(re, s) == re_split_from(re, s, 1, 1)

\* sep.join(pieces)
RECURSIVE str_join(_, _)
str_join(sep, pieces) ==
    IF Len(pieces) = 0 THEN <<>>
    ELSE IF Len(pieces) = 1 THEN pieces[1]
    ELSE pieces[1] \o sep \o str_join(sep, Tail(pieces))

\* "".join(lines)
RECURSIVE Flatten(_)
Flatten(ls) == IF ls = <<>> THEN <<>> ELSE Head(ls) \o Flatten(Tail(ls))

\* s.replace(old, new): the leftmost non-overlapping occurrences of old.
RECURSIVE str_replace_from(_, _, _, _)
str_replace_from(s, old, new, i) ==
    IF i > Len(s) THEN <<>>
    ELSE IF IsSubAt(s, old, i)
         THEN new \o str_replace_from(s, old, new, i + Len(old))
         ELSE <<s[i]>> \o str_replace_from(s, old, new, i + 1)

str_replace(s, old, new) == str_replace_from(s, old, new, 1)

\* `for line in f`: the lines of a text, each with its line break; the last
\* line has none when the text does not end with one.
RECURSIVE readlines_from(_, _, _)
readlines_from(s, i, start) ==
    IF i > Len(s)
    THEN IF start > Len(s) THEN <<>> ELSE <<SubSeq(s, start, Len(s))>>
    ELSE IF s[i] = NL
         THEN <<SubSeq(s, start, i)>> \o readlines_from(s, i + 1, i + 1)
         ELSE readlines_from(s, i + 1, start)

readlines(s) == readlines_from(s, 1, 1)

-----------------------------------------------------------------------------
(* Exceptions and external commands                                        *)

NoException == [kind |-> "none", file |-> <<>>, pattern |-> <<>>]

\* raise Exception(f'Pattern "{pattern}" not found or multiple patterns found in {file}')
PatternException(file, pattern) ==
    [kind |-> "Exception", file |-> file, pattern |-> pattern]

\* subprocess.CalledProcessError, raised by check_call / check_output on a
\* non-zero return code.
CalledProcessError == [kind |-> "CalledProcessError", file |-> <<>>, pattern |-> <<>>]

\* One invocation of an external command, as check_call / check_output logs it.
Cmd(name, rc) == [cmd |-> name, rc |-> rc]

Snapshot == [fs |-> fs, cmds |-> cmds, writes |-> writes, stdout |-> stdout]

-----------------------------------------------------------------------------
(* add_lines_above(file, pattern, lines)                                   *)

\* rf"\n{pattern}\n": the pattern is spliced into a regular expression.
AnchorRe(pattern) == <<NL>> \o pattern \o <<NL>>

\* f"\n{lines}\n{pattern}\n": the separator the pieces are joined with.
AnchorJoin(pattern, lines) == <<NL>> \o lines \o <<NL>> \o pattern \o <<NL>>

\* The effect of one call on a file system: the new file system, the
\* exception raised (if any) and the paths written.
add_lines_above(files, file, pattern, lines) ==
    LET text == files[file]
        split_text == re_split(AnchorRe(pattern), text)
    IN  IF Len(split_text) # 2
        THEN [fs |-> files,
              raised |-> PatternException(file, pattern),
              writes |-> <<>>]
        ELSE [fs |-> [files EXCEPT
                        ![file] = str_join(AnchorJoin(pattern, lines), split_text)],
              raised |-> NoException,
              writes |-> <<file>>]

(* --- the primitive on its own: one call on one file ---                  *)

InsertFile == <<"file">>
InsertAlphabet == {NL, "a", "."}
InsertPatterns == {<<"a">>, <<".">>}
InsertBlocks == {<<"b">>, <<"b", NL, "b">>}

InitInsert ==
    /\ fs \in [{InsertFile} -> SeqsUpTo(InsertAlphabet, MaxTextLen)]
    /\ args \in [file : {InsertFile}, pattern : InsertPatterns, lines : InsertBlocks]
    /\ pc = "add_lines_above"
    /\ raised = NoException
    /\ cmds = <<>>
    /\ writes = <<>>
    /\ stdout = <<>>
    /\ runs = 1
    /\ pre = [fs |-> fs, cmds |-> <<>>, writes |-> <<>>, stdout |-> <<>>]
    /\ fs0 = fs

AddLinesAbove ==
    /\ pc = "add_lines_above"
    /\ LET r == add_lines_above(fs, args.file, args.pattern, args.lines)
       IN  /\ fs' = r.fs
           /\ raised' = r.raised
           /\ writes' = writes \o r.writes
    /\ pc' = "exit"
    /\ pre' = Snapshot
    /\ UNCHANGED <<args, cmds, stdout, runs, fs0>>

NextInsert == AddLinesAbove

SpecInsert == InitInsert /\ [][NextInsert]_vars

\* The positions at which a line of text s equal to the anchor starts: at
\* the start of the text or right after a line break, and ending at the end
\* of the text or right before a line break.
AnchorLines(s, anchor) ==
    {i \in 1..Len(s) :
        /\ i = 1 \/ s[i - 1] = NL
        /\ IsSubAt(s, anchor, i)
        /\ i + Len(anchor) = Len(s) + 1 \/ s[i + Len(anchor)] = NL}

\* The anchor holds no regular-expression metacharacter, so that a line
\* matches it exactly when the line equals it.
IsLiteral(anchor) == \A k \in 1..Len(anchor) : anchor[k] # "."

\* s with block inserted on its own line(s) right before position i.
InsertedBefore(s, i, block) ==
    SubSeq(s, 1, i - 1) \o block \o <<NL>> \o SubSeq(s, i, Len(s))

\* C1: for a file with exactly one line equal to the anchor, wherever that
\* line is (first, middle, last with or without a line break), the call
\* succeeds and the file becomes the original with the block on its own
\* line(s) right before the anchor line.  Stated for literal anchors.
C1_InsertAboveUniqueAnchor ==
    (pc = "exit" /\ IsLiteral(args.pattern)
     /\ Cardinality(AnchorLines(pre.fs[args.file], args.pattern)) = 1)
        => /\ raised.kind = "none"
           /\ \E i \in AnchorLines(pre.fs[args.file], args.pattern) :
                fs[args.file] = InsertedBefore(pre.fs[args.file], i, args.lines)

\* C2: for a file in which the anchor line occurs zero times or more than
\* once (two adjacent anchor lines included), the call fails with the
\* pattern exception and leaves the file as it was.  Stated for literal
\* anchors.
C2_FailsOnMissingOrAmbiguousAnchor ==
    (pc = "exit" /\ IsLiteral(args.pattern)
     /\ Cardinality(AnchorLines(pre.fs[args.file], args.pattern)) # 1)
        => /\ raised.kind = "Exception"
           /\ fs[args.file] = pre.fs[args.file]

-----------------------------------------------------------------------------
(* Bump: the command line, the paths and names derived from it, and run()  *)

Levels == {"1", "2"}

\* platform_version is optional (nargs="?"): <<>> is None, <<v>> the string v.
PlatformVersions == {<<>>, <<"">>, <<"15">>}

\* Python truthiness of an optional string: None and "" are false.
Truthy(v) == v # <<>> /\ v[1] # ""

BumpArgs(versions) ==
    [current_level : Levels, next_level : Levels,
     current_letter : {"v"}, next_letter : {"w"},
     platform_version : versions]

\* str.upper() on the letters of the model.
upper(c) == CASE c = "v" -> "V" [] c = "w" -> "W" [] OTHER -> c

\* f"framework_compatibility_matrix.{level}.xml"
module_name(level) == <<"framework_compatibility_matrix.", level, ".xml">>
current_module_name(a) == module_name(a.current_level)
next_module_name(a) == module_name(a.next_level)
device_module_name == <<"framework_compatibility_matrix.", "device", ".xml">>

\* interfaces_dir / f"compatibility_matrices/compatibility_matrix.{level}.xml"
xml_path(level) == <<"compatibility_matrices/compatibility_matrix.", level, ".xml">>
current_xml(a) == xml_path(a.current_level)
next_xml(a) == xml_path(a.next_level)

\* The steps of run(), in the order run() calls them.
RunOrderSwapped ==
    <<"bump_kernel_configs", "copy_matrix", "edit_android_mk",
      "edit_android_bp", "bump_libvintf">>

RunOrder ==
    <<"bump_kernel_configs", "copy_matrix", "edit_android_bp",
      "edit_android_mk", "bump_libvintf">>

StepIndex(step) == CHOOSE i \in 1..Len(RunOrder) : RunOrder[i] = step

\* Where control goes when a step returns normally.
After(step) ==
    IF StepIndex(step) = Len(RunOrder) THEN "exit"
    ELSE RunOrder[StepIndex(step) + 1]

-----------------------------------------------------------------------------
(* copy_matrix                                                             *)

\* f"level=\"{level}\""
level_attr(level) == <<"level=\"", level, "\"">>

\* s.replace(old, new, 1): only the first occurrence.
str_replace_first(s, old, new) ==
    IF \E i \in 1..Len(s) : IsSubAt(s, old, i)
    THEN LET i == CHOOSE j \in 1..Len(s) :
                    IsSubAt(s, old, j) /\ \A k \in 1..(j - 1) : ~IsSubAt(s, old, k)
         IN  SubSeq(s, 1, i - 1) \o new \o SubSeq(s, i + Len(old), Len(s))
    ELSE s

\* f_current.read().replace(f"level=\"{current_level}\"", f"level=\"{next_level}\"")
replace_level(s, old, new) == str_replace(s, old, new)

\* open(path, "w"): the file is created, or truncated if it exists.
open_w(files, path) ==
    [p \in DOMAIN files \cup {path} |-> IF p = path THEN <<>> ELSE files[p]]

\* Both files are opened before anything is read: the source for reading,
\* then the target for writing.
copy_matrix(files, a) ==
    LET opened == open_w(files, next_xml(a))
    IN  [opened EXCEPT ![next_xml(a)] =
            replace_level(opened[current_xml(a)],
                          level_attr(a.current_level), level_attr(a.next_level))]

CopyMatrix ==
    /\ pc = "copy_matrix"
    /\ fs' = copy_matrix(fs, args)
    /\ writes' = Append(writes, next_xml(args))
    /\ pc' = After("copy_matrix")
    /\ pre' = Snapshot
    /\ UNCHANGED <<args, raised, cmds, stdout, runs, fs0>>

XmlAlphabet == {"level=\"", "\"", "1", "2"}
StaleXml == <<"\"">>

InitCopy ==
    /\ args \in BumpArgs({<<>>})
    /\ \E c \in SeqsUpTo(XmlAlphabet, MaxXmlLen), stale \in BOOLEAN :
         fs = [p \in {current_xml(args)}
                     \cup (IF stale THEN {next_xml(args)} ELSE {}) |->
                 IF p = current_xml(args) THEN c ELSE StaleXml]
    /\ pc = "copy_matrix"
    /\ raised = NoException
    /\ cmds = <<>>
    /\ writes = <<>>
    /\ stdout = <<>>
    /\ runs = 1
    /\ pre = [fs |-> fs, cmds |-> <<>>, writes |-> <<>>, stdout |-> <<>>]
    /\ fs0 = fs

NextCopy == CopyMatrix

SpecCopy == InitCopy /\ [][NextCopy]_vars

\* The text s with the level of every level="<cur>" attribute set to next,
\* position by position (levels are single tokens, so lengths agree).
WithLevelsReplaced(s, cur, next) ==
    [i \in 1..Len(s) |->
        IF /\ 1 < i /\ i < Len(s)
           /\ s[i - 1] = "level=\"" /\ s[i] = cur /\ s[i + 1] = "\""
        THEN next ELSE s[i]]

Copied == pc = After("copy_matrix")

\* C5 as stated: for every content and every pair of levels, the next
\* matrix file is the current one with every level="<current>" replaced by
\* level="<next>", and the current matrix file is not modified.
C5_CopyReplacesEveryLevel ==
    Copied =>
        /\ fs[next_xml(args)] =
              WithLevelsReplaced(pre.fs[current_xml(args)],
                                 args.current_level, args.next_level)
        /\ fs[current_xml(args)] = pre.fs[current_xml(args)]

\* C5 amended: the same, for every pair of distinct levels.
C5_CopyReplacesEveryLevelDistinct ==
    (Copied /\ args.current_level # args.next_level) =>
        /\ fs[next_xml(args)] =
              WithLevelsReplaced(pre.fs[current_xml(args)],
                                 args.current_level, args.next_level)
        /\ fs[current_xml(args)] = pre.fs[current_xml(args)]

\* A copy between distinct levels of a file holding the attribute twice.
C5_Witness ==
    /\ Copied
    /\ args.current_level = "1" /\ args.next_level = "2"
    /\ pre.fs[current_xml(args)] = level_attr("1") \o level_attr("1")
    /\ fs[next_xml(args)] = level_attr("2") \o level_attr("2")
    /\ fs[current_xml(args)] = level_attr("1") \o level_attr("1")

-----------------------------------------------------------------------------
(* Re-invocation, and the outcome of a step's external commands            *)

\* The script is run again (by hand): control is back at the step, with no
\* exception pending.  The files are whatever the earlier runs left.
Reinvoke(step) ==
    /\ pc # step
    /\ runs < MaxRuns
    /\ pc' = step
    /\ raised' = NoException
    /\ runs' = runs + 1
    /\ UNCHANGED <<fs, args, cmds, writes, stdout, pre, fs0>>

\* The commands a step has invoked when the fail-th of names returned
\* non-zero (fail = 0: all returned zero): check_call / check_output raise
\* on the first non-zero return code, so nothing after it is invoked.
Invoked(names, fail) ==
    [i \in 1..(IF fail = 0 THEN Len(names) ELSE fail) |->
        Cmd(names[i], IF i = fail THEN 1 ELSE 0)]

-----------------------------------------------------------------------------
(* edit_android_bp                                                         *)

android_bp == <<"compatibility_matrices/Android.bp">>

IND == "    "
Q == "\""
QC == "\","

\* f"    \"{self.device_module_name}\",\n"
bp_device_entry == <<IND, Q>> \o device_module_name \o <<QC, NL>>
\* f"    \"{self.current_module_name}\",\n"
bp_current_entry(a) == <<IND, Q>> \o current_module_name(a) \o <<QC, NL>>
\* f"                \"{self.current_module_name}\",\n"
bp_nested_current(a) == <<IND, IND, IND, IND, Q>> \o current_module_name(a) \o <<QC, NL>>
\* f"                \"{self.next_module_name}\",\n"
bp_nested_next(a) == <<IND, IND, IND, IND, Q>> \o next_module_name(a) \o <<QC, NL>>

\* The dedented module block written at the end of the file.
bp_module_block(a) ==
    <<"vintf_compatibility_matrix {", NL, IND, "name: ", Q>>
        \o next_module_name(a) \o <<QC, NL, "}", NL>>

\* Lines 78-87: the block is appended unless the next module name is
\* already somewhere in the file.
bp_has_module(text, a) == Contains(text, next_module_name(a))

bp_with_module(text, a) ==
    IF bp_has_module(text, a) THEN text
    ELSE text \o <<NL>> \o bp_module_block(a)

\* The loop body with the second test attached to the first by elif.
bp_swap_line_elif(line, a) ==
    IF Contains(line, bp_device_entry) THEN <<bp_current_entry(a)>>
    ELSE IF Contains(line, bp_nested_current(a)) THEN <<bp_nested_next(a)>>
    ELSE <<line>>

\* Lines 118-125: what one line of the file contributes to `lines`.
bp_swap_line(line, a) ==
    (IF Contains(line, bp_device_entry) THEN <<bp_current_entry(a)>> ELSE <<>>)
    \o (IF Contains(line, bp_nested_current(a))
        THEN <<bp_nested_next(a)>>
        ELSE <<line>>)

RECURSIVE bp_swap_lines(_, _)
bp_swap_lines(ls, a) ==
    IF ls = <<>> THEN <<>>
    ELSE bp_swap_line(Head(ls), a) \o bp_swap_lines(Tail(ls), a)

\* Lines 116-128: the file rewritten from `lines`.
bp_swapped(text, a) == Flatten(bp_swap_lines(readlines(text), a))

\* The external commands of the step, in order: the grep | sed pipeline of
\* check_output and the three bpmodify calls.  bpmodify is a collaborator
\* outside this repository; it edits properties inside the module block and
\* is taken to leave every line the script looks at as it is.
BpCommands ==
    <<"grep -rh name: | sed", "bpmodify -property stem",
      "bpmodify -property srcs -a", "bpmodify -property kernel_configs -a">>

EditAndroidBp ==
    /\ pc = "edit_android_bp"
    /\ \E fail \in 0..Len(BpCommands) :
        LET text == fs[android_bp]
            appended == bp_with_module(text, args)
            w1 == IF bp_has_module(text, args) THEN <<>> ELSE <<android_bp>>
        IN  /\ cmds' = cmds \o Invoked(BpCommands, fail)
            /\ IF fail = 0
               THEN /\ fs' = [fs EXCEPT ![android_bp] = bp_swapped(appended, args)]
                    /\ writes' = writes \o w1 \o <<android_bp>>
                    /\ raised' = NoException
                    /\ pc' = After("edit_android_bp")
               ELSE /\ fs' = [fs EXCEPT ![android_bp] = appended]
                    /\ writes' = writes \o w1
                    /\ raised' = CalledProcessError
                    /\ pc' = "exit"
    /\ pre' = Snapshot
    /\ UNCHANGED <<args, stdout, runs, fs0>>

\* The kinds of line an Android.bp of the model is made of.
BpLineKinds(a) ==
    { bp_device_entry,
      bp_current_entry(a),
      bp_nested_current(a),
      bp_nested_next(a),
      <<IND, IND, IND, IND, Q>> \o device_module_name \o <<QC, NL>>,
      <<IND, IND, IND, IND, Q>> \o current_module_name(a) \o <<QC>>,
      <<"]", NL>> }

InitBp ==
    /\ args \in {a \in BumpArgs({<<>>}) : a.current_level = "1"}
    /\ \E ls \in SeqsUpTo(BpLineKinds(args), MaxBpLines) :
         fs = [p \in {android_bp} |-> Flatten(ls)]
    /\ pc = "edit_android_bp"
    /\ raised = NoException
    /\ cmds = <<>>
    /\ writes = <<>>
    /\ stdout = <<>>
    /\ runs = 1
    /\ pre = [fs |-> fs, cmds |-> <<>>, writes |-> <<>>, stdout |-> <<>>]
    /\ fs0 = fs

ReinvokeBp == Reinvoke("edit_android_bp")

NextBp == EditAndroidBp \/ ReinvokeBp

SpecBp == InitBp /\ [][NextBp]_vars

BpDone == pc = After("edit_android_bp") /\ raised.kind = "none"

\* The invocation names two different levels, as a bump does.
DistinctLevels == args.current_level # args.next_level

\* C3: re-running edit_android_bp on an Android.bp that already contains
\* the next module name is a no-op (the bpmodify calls left aside): the
\* file after the run equals the file before it.
C3_BpRerunIsNoOp ==
    (BpDone /\ DistinctLevels /\ Contains(pre.fs[android_bp], next_module_name(args)))
        => fs[android_bp] = pre.fs[android_bp]

\* The lines the swap loop reads, and the lines of the file it writes.
SwapIn == readlines(bp_with_module(pre.fs[android_bp], args))
SwapOut == readlines(fs[android_bp])

\* C7 as stated: the swap replaces each line holding the nested quoted
\* current module name by a line holding the quoted next module name, and
\* every other line is unchanged, no line being added or removed.
C7_SwapKeepsOtherLines ==
    (BpDone /\ DistinctLevels) =>
        /\ Len(SwapOut) = Len(SwapIn)
        /\ \A i \in 1..Len(SwapIn) :
             IF Contains(SwapIn[i], bp_nested_current(args))
             THEN Contains(SwapOut[i], <<Q>> \o next_module_name(args) \o <<QC>>)
             ELSE SwapOut[i] = SwapIn[i]

\* The number of lines among the first i that hold the device entry.
DeviceLinesUpTo(ls, i) ==
    Cardinality({j \in 1..i : Contains(ls[j], bp_device_entry)})

\* C7 amended: each line holding the nested current entry is replaced by
\* the nested next entry, one line with the current entry is inserted right
\* above every line holding the device entry, every other line is kept as
\* it is and in order, and no line is removed.
C7_SwapKeepsOtherLinesAndInsertsCurrent ==
    BpDone =>
        /\ Len(SwapOut) = Len(SwapIn) + DeviceLinesUpTo(SwapIn, Len(SwapIn))
        /\ \A i \in 1..Len(SwapIn) :
             LET k == i + DeviceLinesUpTo(SwapIn, i)
             IN  /\ IF Contains(SwapIn[i], bp_nested_current(args))
                    THEN SwapOut[k] = bp_nested_next(args)
                    ELSE SwapOut[k] = SwapIn[i]
                 /\ Contains(SwapIn[i], bp_device_entry)
                      => SwapOut[k - 1] = bp_current_entry(args)

\* A run over a file with a nested current entry and a device entry: the
\* first becomes the next entry, the second gets the current entry above it.
C7_Witness ==
    /\ BpDone
    /\ runs = 1
    /\ args.current_level = "1" /\ args.next_level = "2"
    /\ pre.fs[android_bp] = bp_nested_current(args) \o bp_device_entry
    /\ SubSeq(fs[android_bp], 1,
              Len(bp_nested_next(args) \o bp_current_entry(args) \o bp_device_entry))
         = bp_nested_next(args) \o bp_current_entry(args) \o bp_device_entry

-----------------------------------------------------------------------------
(* edit_android_mk                                                         *)

android_mk == <<"compatibility_matrices/Android.mk">>

BS == " \\"

\* f"    {self.device_module_name} \\\n"
mk_device_entry == <<IND>> \o device_module_name \o <<BS, NL>>
\* f"    {self.current_module_name} \\\n"
mk_current_entry(a) == <<IND>> \o current_module_name(a) \o <<BS, NL>>
\* f"    {self.next_module_name} \\\n"
mk_next_entry(a) == <<IND>> \o next_module_name(a) \o <<BS, NL>>

\* The early return taken away.
mk_skip_never(text, a) == FALSE

\* The early return tested on the current module name.
mk_skip_on_current(text, a) == Contains(text, current_module_name(a))

\* Lines 137-138: the early return.
mk_skip(text, a) == Contains(text, next_module_name(a))

\* Lines 140-147: what one line of the file contributes to `lines`.
mk_swap_line(line, a) ==
    (IF Contains(line, mk_device_entry) THEN <<mk_current_entry(a)>> ELSE <<>>)
    \o (IF Contains(line, current_module_name(a))
        THEN <<mk_next_entry(a)>>
        ELSE <<line>>)

RECURSIVE mk_swap_lines(_, _)
mk_swap_lines(ls, a) ==
    IF ls = <<>> THEN <<>>
    ELSE mk_swap_line(Head(ls), a) \o mk_swap_lines(Tail(ls), a)

mk_swapped(text, a) == Flatten(mk_swap_lines(readlines(text), a))

EditAndroidMk ==
    /\ pc = "edit_android_mk"
    /\ IF mk_skip(fs[android_mk], args)
       THEN UNCHANGED <<fs, writes>>
       ELSE /\ fs' = [fs EXCEPT ![android_mk] = mk_swapped(fs[android_mk], args)]
            /\ writes' = Append(writes, android_mk)
    /\ pc' = After("edit_android_mk")
    /\ pre' = Snapshot
    /\ UNCHANGED <<args, raised, cmds, stdout, runs, fs0>>

\* The kinds of line an Android.mk of the model is made of.
MkLineKinds(a) ==
    { mk_device_entry,
      mk_current_entry(a),
      mk_next_entry(a),
      <<IND>> \o current_module_name(a),
      <<"my_system_matrix_deps := \\", NL>>,
      <<NL>> }

InitMk ==
    /\ args \in BumpArgs({<<>>})
    /\ \E ls \in SeqsUpTo(MkLineKinds(args), MaxMkLines) :
         fs = [p \in {android_mk} |-> Flatten(ls)]
    /\ pc = "edit_android_mk"
    /\ raised = NoException
    /\ cmds = <<>>
    /\ writes = <<>>
    /\ stdout = <<>>
    /\ runs = 1
    /\ pre = [fs |-> fs, cmds |-> <<>>, writes |-> <<>>, stdout |-> <<>>]
    /\ fs0 = fs

ReinvokeMk == Reinvoke("edit_android_mk")

NextMk == EditAndroidMk \/ ReinvokeMk

SpecMk == InitMk /\ [][NextMk]_vars

MkReturned == pc = After("edit_android_mk")

\* C4: on an Android.mk that already holds the next module name anywhere,
\* edit_android_mk writes nothing and leaves the file byte-identical.
C4_MkSkipsWhenNextPresent ==
    (MkReturned /\ Contains(pre.fs[android_mk], next_module_name(args)))
        => /\ fs[android_mk] = pre.fs[android_mk]
           /\ writes = pre.writes

\* The step has returned on a file that holds the next module name next to
\* a current entry and a device entry, the lines a rewrite would change.
C4_Witness ==
    /\ MkReturned
    /\ runs = 1
    /\ DistinctLevels
    /\ Contains(pre.fs[android_mk], next_module_name(args))
    /\ Contains(pre.fs[android_mk], mk_current_entry(args))
    /\ Contains(pre.fs[android_mk], mk_device_entry)
    /\ writes = <<>>

\* C10 as stated: for every initial content, a second run in succession
\* leaves the file as the first run left it.
C10_MkIdempotent ==
    (MkReturned /\ DistinctLevels /\ runs >= 2)
        => fs[android_mk] = pre.fs[android_mk]

\* The initial contents on which the step is idempotent: the next module
\* name is there, or the current module name is there (the first run turns
\* its line into the next entry), or there is no device entry.
MkSettles(text, a) ==
    \/ Contains(text, next_module_name(a))
    \/ Contains(text, current_module_name(a))
    \/ ~Contains(text, mk_device_entry)

\* C10 amended: for every initial content that holds the next module name,
\* or the current module name, or no device entry line, a second run in
\* succession leaves the file as the first run left it.
C10_MkIdempotentWhenSettled ==
    (MkReturned /\ runs >= 2 /\ MkSettles(fs0[android_mk], args))
        => fs[android_mk] = pre.fs[android_mk]

\* Two runs over a file with a current entry and a device entry and no
\* next entry: the first run rewrote it, the second left it alone.
C10_Witness ==
    /\ MkReturned
    /\ runs = 2
    /\ DistinctLevels
    /\ fs0[android_mk] = mk_current_entry(args) \o mk_device_entry
    /\ pre.fs[android_mk] =
          mk_next_entry(args) \o mk_current_entry(args) \o mk_device_entry
    /\ fs[android_mk] = pre.fs[android_mk]
    /\ writes = <<android_mk>>

-----------------------------------------------------------------------------
(* bump_libvintf                                                           *)

analyze_matrix_cpp == <<"system/libvintf/analyze_matrix/analyze_matrix.cpp">>
level_h == <<"system/libvintf/include/vintf/Level.h">>
runtime_info_cpp == <<"system/libvintf/RuntimeInfo.cpp">>

\* The four anchors.  The last one ends with a full stop, which the regular
\* expression it is spliced into reads as a wildcard.
AnchorCase == <<IND, IND, "case Level::", "UNSPECIFIED", ":">>
AnchorEnum == <<IND, "// To add new values:">>
AnchorList == <<IND, IND, "Level::", "UNSPECIFIED", ",">>
AnchorRuntime == <<IND, IND, IND, "// Add more levels above this line", ".">>

\* The four blocks, built from the current letter, level and version.
BlockCase(a) ==
    <<IND, IND, "case Level::", upper(a.current_letter), ":", NL,
      IND, IND, IND, "return \"Android ", a.platform_version[1], " (",
      upper(a.current_letter), ")\";">>
BlockEnum(a) == <<IND, upper(a.current_letter), " = ", a.current_level, ",">>
BlockList(a) == <<IND, IND, "Level::", upper(a.current_letter), ",">>
BlockRuntime(a) ==
    <<IND, IND, IND, "case ", a.platform_version[1], ": {", NL,
      IND, IND, IND, IND, "ret = Level::", upper(a.current_letter), ";", NL,
      IND, IND, IND, "} break;">>

\* Lines 162-180: the four calls of add_lines_above, in order.
LibvintfInserts(a) ==
    << [file |-> analyze_matrix_cpp, pattern |-> AnchorCase, lines |-> BlockCase(a)],
       [file |-> level_h, pattern |-> AnchorEnum, lines |-> BlockEnum(a)],
       [file |-> level_h, pattern |-> AnchorList, lines |-> BlockList(a)],
       [file |-> runtime_info_cpp, pattern |-> AnchorRuntime, lines |-> BlockRuntime(a)] >>

\* The calls one after the other; the first that raises ends the sequence,
\* and what the earlier ones wrote stays written.
RECURSIVE apply_inserts(_, _)
apply_inserts(files, ins) ==
    IF ins = <<>>
    THEN [fs |-> files, raised |-> NoException, writes |-> <<>>]
    ELSE LET r == add_lines_above(files, Head(ins).file, Head(ins).pattern,
                                  Head(ins).lines)
         IN  IF r.raised.kind # "none" THEN r
             ELSE LET rest == apply_inserts(r.fs, Tail(ins))
                  IN  [fs |-> rest.fs,
                       raised |-> rest.raised,
                       writes |-> r.writes \o rest.writes]

\* grep -h f"{letter.upper()} = {level}" Level.h: return code 0 when a line
\* of Level.h holds the text, 1 when none does.
grep_level(files, a) ==
    IF Contains(files[level_h], <<upper(a.current_letter), " = ", a.current_level>>)
    THEN 0 ELSE 1

\* The skip taken only when no version was given at all.
libvintf_skip_if_none(a) == a.platform_version = <<>>

\* Line 153: `if not self.current_version`.
libvintf_skip(a) == ~Truthy(a.platform_version)

BumpLibvintf ==
    /\ pc = "bump_libvintf"
    /\ IF libvintf_skip(args)
       THEN /\ stdout' = Append(stdout, "Skip libvintf update...")
            /\ pc' = After("bump_libvintf")
            /\ UNCHANGED <<fs, cmds, writes, raised>>
       ELSE /\ cmds' = Append(cmds, Cmd("grep -h", grep_level(fs, args)))
            /\ IF grep_level(fs, args) = 0
               THEN /\ pc' = After("bump_libvintf")
                    /\ UNCHANGED <<fs, writes, raised, stdout>>
               ELSE LET r == apply_inserts(fs, LibvintfInserts(args))
                    IN  /\ stdout' = Append(stdout, "Adding new API level to libvintf")
                        /\ fs' = r.fs
                        /\ writes' = writes \o r.writes
                        /\ raised' = r.raised
                        /\ pc' = IF r.raised.kind = "none"
                                 THEN After("bump_libvintf") ELSE "exit"
    /\ pre' = Snapshot
    /\ UNCHANGED <<args, runs, fs0>>

\* The correction made by hand after an anchored insert raised: the file is
\* given exactly one anchor line, a missing one being added at the end and
\* surplus ones being taken out; nothing else in the file is touched.
anchor_corrected(text, pattern) ==
    LET pieces == re_split(AnchorRe(pattern), text)
    IN  IF Len(pieces) = 1
        THEN text \o pattern \o <<NL>>
        ELSE pieces[1] \o AnchorRe(pattern) \o str_join(<<NL>>, Tail(pieces))

FixAnchor ==
    /\ pc = "exit"
    /\ raised.kind = "Exception"
    /\ Len(re_split(AnchorRe(raised.pattern), fs[raised.file])) # 2
    /\ fs' = [fs EXCEPT ![raised.file] = anchor_corrected(@, raised.pattern)]
    /\ UNCHANGED <<args, pc, raised, cmds, writes, stdout, runs, pre, fs0>>

\* A registry file of the model: a first line, then lines of the given kinds.
RegistryTexts(first, kinds) ==
    {first \o <<NL>> \o Flatten(ls) : ls \in SeqsUpTo({k \o <<NL>> : k \in kinds}, MaxRegLines)}

InitVintf ==
    /\ args \in {a \in BumpArgs(PlatformVersions) :
                    a.current_level = "1" /\ a.next_level = "2"}
    /\ \E t1 \in RegistryTexts(<<"switch (level) {">>, {AnchorCase, <<IND, IND, "default:">>}),
          t2 \in RegistryTexts(<<"enum Level {">>, {AnchorEnum, AnchorList, <<"};">>}),
          t3 \in RegistryTexts(<<"switch (version) {">>,
                               {AnchorRuntime,
                                <<IND, IND, IND, "// Add more levels above this line", "!">>}) :
         fs = [p \in {analyze_matrix_cpp, level_h, runtime_info_cpp} |->
                 IF p = analyze_matrix_cpp THEN t1
                 ELSE IF p = level_h THEN t2 ELSE t3]
    /\ pc = "bump_libvintf"
    /\ raised = NoException
    /\ cmds = <<>>
    /\ writes = <<>>
    /\ stdout = <<>>
    /\ runs = 1
    /\ pre = [fs |-> fs, cmds |-> <<>>, writes |-> <<>>, stdout |-> <<>>]
    /\ fs0 = fs

\* The step is run again once the anchor that made an insert raise has been
\* corrected.
ReinvokeVintf ==
    /\ raised.kind = "Exception"
         => Len(re_split(AnchorRe(raised.pattern), fs[raised.file])) = 2
    /\ Reinvoke("bump_libvintf")

NextVintf == BumpLibvintf \/ FixAnchor \/ ReinvokeVintf

SpecVintf == InitVintf /\ [][NextVintf]_vars

VintfReturned == pc = After("bump_libvintf") /\ raised.kind = "none"

\* C6: with platform_version omitted (None or empty) bump_libvintf reports
\* a skip, writes no file and invokes no external command: the three
\* registry files are unchanged.
C6_SkipWithoutPlatformVersion ==
    (VintfReturned /\ ~Truthy(args.platform_version))
        => /\ fs = pre.fs
           /\ writes = pre.writes
           /\ cmds = pre.cmds
           /\ stdout = Append(pre.stdout, "Skip libvintf update...")

\* The step has returned for an empty platform_version on three files that
\* hold all four anchors, where a run that did not skip would write.
C6_Witness ==
    /\ VintfReturned
    /\ runs = 1
    /\ args.platform_version = <<"">>
    /\ apply_inserts(pre.fs,
          LibvintfInserts([args EXCEPT !.platform_version = <<"15">>])).raised.kind = "none"
    /\ fs = pre.fs
    /\ stdout = <<"Skip libvintf update...">>

\* The number of places at which block occurs in text.
Occurrences(text, block) ==
    Cardinality({i \in 1..Len(text) : IsSubAt(text, block, i)})

\* All four new entries are in the files already.
AllEntriesPresent(files, a) ==
    \A k \in 1..Len(LibvintfInserts(a)) :
        Occurrences(files[LibvintfInserts(a)[k].file], LibvintfInserts(a)[k].lines) >= 1

\* C9: with platform_version supplied, a run of bump_libvintf that
\* completes, be it the first or a re-run after an insert failed and its
\* anchor was corrected, leaves each of the four new entries in its file
\* exactly once; and a run on files that hold all four already writes
\* nothing.
C9_RerunCompletesEntries ==
    (VintfReturned /\ Truthy(args.platform_version))
        => /\ \A k \in 1..Len(LibvintfInserts(args)) :
                Occurrences(fs[LibvintfInserts(args)[k].file],
                            LibvintfInserts(args)[k].lines) = 1
           /\ AllEntriesPresent(pre.fs, args) => writes = pre.writes

-----------------------------------------------------------------------------
(* bump_kernel_configs and run()                                           *)

\* check_call([top / "kernel/configs/tools/bump.py", ...]): the helper works
\* on kernel/configs, none of the files of this model.
BumpKernelConfigs ==
    /\ pc = "bump_kernel_configs"
    /\ \E rc \in {0, 1} :
        /\ cmds' = Append(cmds, Cmd("kernel/configs/tools/bump.py", rc))
        /\ IF rc = 0
           THEN pc' = After("bump_kernel_configs") /\ raised' = raised
           ELSE pc' = "exit" /\ raised' = CalledProcessError
    /\ pre' = Snapshot
    /\ UNCHANGED <<fs, args, writes, stdout, runs, fs0>>

\* The working trees a whole run starts from: each file in an expected
\* shape or in one that lacks what its step looks for.
RunTrees(a) ==
    {[p \in {current_xml(a), android_bp, android_mk,
             analyze_matrix_cpp, level_h, runtime_info_cpp} |->
        CASE p = current_xml(a) -> xml
          [] p = android_bp -> bp
          [] p = android_mk -> mk
          [] p = analyze_matrix_cpp -> t1
          [] p = level_h -> t2
          [] OTHER -> t3] :
      xml \in {level_attr(a.current_level), <<"\"">>},
      bp \in {bp_nested_current(a) \o bp_device_entry, <<"]", NL>>},
      mk \in {mk_current_entry(a) \o mk_device_entry, mk_device_entry},
      t1 \in {<<"switch (level) {", NL>> \o AnchorCase \o <<NL>>,
              <<"switch (level) {", NL>>},
      t2 \in {<<"enum Level {", NL>> \o AnchorEnum \o <<NL>> \o AnchorList \o <<NL>>,
              <<"enum Level {", NL>> \o AnchorEnum \o <<NL>>},
      t3 \in {<<"switch (version) {", NL>> \o AnchorRuntime \o <<NL>>,
              <<"switch (version) {", NL>>}}

InitRun ==
    /\ args \in BumpArgs(PlatformVersions)
    /\ fs \in RunTrees(args)
    /\ pc = RunOrder[1]
    /\ raised = NoException
    /\ cmds = <<>>
    /\ writes = <<>>
    /\ stdout = <<>>
    /\ runs = 1
    /\ pre = [fs |-> fs, cmds |-> <<>>, writes |-> <<>>, stdout |-> <<>>]
    /\ fs0 = fs

NextRun ==
    \/ BumpKernelConfigs
    \/ CopyMatrix
    \/ EditAndroidBp
    \/ EditAndroidMk
    \/ BumpLibvintf

SpecRun == InitRun /\ [][NextRun]_vars

\* The order of the five steps, as the claim gives it.
StatedOrder ==
    <<"bump_kernel_configs", "copy_matrix", "edit_android_bp",
      "edit_android_mk", "bump_libvintf">>

StatedSuccessor(step) ==
    LET i == CHOOSE j \in 1..Len(StatedOrder) : StatedOrder[j] = step
    IN  IF i = Len(StatedOrder) THEN "exit" ELSE StatedOrder[i + 1]

\* The files a step may write.
StepFiles(step, a) ==
    CASE step = "copy_matrix" -> {next_xml(a)}
      [] step = "edit_android_bp" -> {android_bp}
      [] step = "edit_android_mk" -> {android_mk}
      [] step = "bump_libvintf" -> {analyze_matrix_cpp, level_h, runtime_info_cpp}
      [] OTHER -> {}

====
